---------------------------- MODULE Spec2Model ----------------------------
(***************************************************************************)
(* Model of the authenticated document-sync core of satmachine/brain:      *)
(*   src/firebase-auth.js  token store (sessionStorage), sign-in, verify,  *)
(*                         refresh, sign-out                               *)
(*   src/firebase-db.js    readUserData, createUserDocument,               *)
(*                         updateGameData, the Firestore value codec and   *)
(*                         migrateLocalStorage                             *)
(*                                                                         *)
(* Every `await fetch(...)` of the source is one step of the model: the    *)
(* request (bearer token, document path, body) is fixed when it is issued, *)
(* and the step that delivers the response applies the request to the      *)
(* remote store and runs the continuation up to the next await.  Two       *)
(* browser tabs of the same user run the code; sessionStorage and the      *)
(* module variables are per tab, localStorage and the remote store are     *)
(* shared.                                                                 *)
(***************************************************************************)
EXTENDS Integers, Sequences, FiniteSets, TLC

(***************************************************************************)
(* Bounds of the model.                                                    *)
(***************************************************************************)
\* Access tokens the identity endpoints may issue in one behaviour.
MaxTokens == 4
\* Data calls (readUserData, updateGameData, migrateLocalStorage) in one
\* behaviour of Spec.
MaxCalls == 2
\* Environment events (token expiry, failed fetch, lost response, sign-in,
\* sign-out) in one behaviour of Spec.
MaxEvents == 1
\* Data calls, over both tabs, in one behaviour of SpecTabs.
TabCalls == 2
\* Data calls in one behaviour of the sequential specification SpecSeq.
SeqCalls == 32
\* Environment events in one behaviour of the auth specification SpecAuth.
AuthEvents == 3
\* readUserData calls in one behaviour of SpecAuth.
AuthCalls == 1
\* Nesting depth of the values sent through the codec in SpecCodec.
CodecDepth == 2

(***************************************************************************)
(* Program constants.                                                      *)
(***************************************************************************)
\* firebase-db.js:173  `if (gameData.sessions.length > 30)`
MaxSessions == 30
\* sessionStorage.getItem of a token key that is not set (JS null).
NoToken == 0

Tabs == {1, 2}

\* sessionStorage.getItem / localStorage.getItem of a string key that is not set.
NoItem == "<null>"

\* The seven game categories of the user document (firebase-db.js:116-122).
GameNames ==
    {"typing", "dualNBack", "mathGame", "speedProcessing", "stroop", "cpt",
     "taskSwitching"}

\* Categories the callers of the model write to.
PlayedGames == {"stroop", "cpt"}

(***************************************************************************)
(* Native (JavaScript) values: [t |-> typeof-like tag, v |-> payload].     *)
(*   null, undefined, function : no payload                                *)
(*   number, string, boolean   : v the value                               *)
(*   date                      : v the instant (an integer)                *)
(*   array                     : v a sequence of native values             *)
(*   object                    : v a function from keys to native values   *)
(* Firestore wire values: [tag |-> "<x>Value", v |-> payload].             *)
(***************************************************************************)
Null == [t |-> "null"]
Undefined == [t |-> "undefined"]
Num(n) == [t |-> "number", v |-> n]
Str(s) == [t |-> "string", v |-> s]
Bool(b) == [t |-> "boolean", v |-> b]
Date(n) == [t |-> "date", v |-> n]
Arr(s) == [t |-> "array", v |-> s]
Obj(f) == [t |-> "object", v |-> f]

EmptyFields == [k \in {} |-> Null]

\* A TypeError raised while encoding (Object.entries(null)).
Thrown == [thrown |-> "TypeError"]

\* typeof x === 'object' (firebase-db.js:276, 283): null, Date, arrays, objects.
TypeofObject(x) == x.t \in {"null", "date", "array", "object"}

\* Object.entries(x) as a function from keys to values; undefined behaviour of
\* the model for null/undefined (the caller checks) and for strings (never passed).
Entries(x) ==
    CASE x.t = "object" -> x.v
      [] x.t = "array" ->
            [k \in {ToString(i - 1) : i \in 1..Len(x.v)} |->
                x.v[CHOOSE i \in 1..Len(x.v) : ToString(i - 1) = k]]
      [] x.t \in {"number", "boolean", "date", "function"} -> EmptyFields

RECURSIVE objectToFirestoreFields(_)
RECURSIVE EncodeValue(_)

\* firebase-db.js:275-280: one element of an array.
EncodeItem(item) ==
    IF TypeofObject(item)
    THEN LET f == objectToFirestoreFields(item)
         IN  IF f = Thrown THEN Thrown ELSE [tag |-> "mapValue", v |-> f]
    ELSE IF item.t = "function"
         THEN [tag |-> "jsonNull"]          \* .val is undefined: JSON null
         ELSE EncodeValue(item)

\* firebase-db.js:262-289: the if-chain for the value of one key.
EncodeValue(value) ==
    CASE value.t \in {"null", "undefined"} -> [tag |-> "nullValue"]
      [] value.t = "number" -> [tag |-> "doubleValue", v |-> value.v]
      [] value.t = "string" -> [tag |-> "stringValue", v |-> value.v]
      [] value.t = "boolean" -> [tag |-> "booleanValue", v |-> value.v]
      [] value.t = "date" -> [tag |-> "timestampValue", v |-> value.v]
      [] value.t = "array" ->
            LET items == [i \in 1..Len(value.v) |-> EncodeItem(value.v[i])]
            IN  IF \E i \in 1..Len(items) : items[i] = Thrown
                THEN Thrown
                ELSE [tag |-> "arrayValue", v |-> items]
      [] value.t = "object" ->
            LET f == objectToFirestoreFields(value)
            IN  IF f = Thrown THEN Thrown ELSE [tag |-> "mapValue", v |-> f]

\* firebase-db.js:258-293.  A key whose value matches no branch (a function)
\* is left out; Object.entries of null or undefined throws.
objectToFirestoreFields(obj) ==
    IF obj.t \in {"null", "undefined"}
    THEN Thrown
    ELSE LET e == Entries(obj)
             kept == {k \in DOMAIN e : e[k].t # "function"}
             enc == [k \in kept |-> EncodeValue(e[k])]
         IN  IF \E k \in kept : enc[k] = Thrown THEN Thrown ELSE enc

RECURSIVE parseFirestoreValue(_)

\* firebase-db.js:318-351.  An absent `fields` / `values` member of the wire
\* value is the empty function / sequence here (`|| {}`, `|| []`).
parseFirestoreValue(value) ==
    CASE value.tag = "stringValue" -> Str(value.v)
      [] value.tag = "doubleValue" -> Num(value.v)
      [] value.tag = "integerValue" -> Num(value.v)
      [] value.tag = "booleanValue" -> Bool(value.v)
      [] value.tag = "timestampValue" -> Date(value.v)
      [] value.tag = "nullValue" -> Null
      [] value.tag = "mapValue" ->
            Obj([k \in DOMAIN value.v |-> parseFirestoreValue(value.v[k])])
      [] value.tag = "arrayValue" ->
            Arr([i \in 1..Len(value.v) |-> parseFirestoreValue(value.v[i])])
      [] OTHER -> Null

\* firebase-db.js:300-311.  doc is [exists, fields]; the result is the native
\* object holding one parsed value per top-level field.
parseFirestoreDocument(doc) ==
    Obj([k \in DOMAIN doc.fields |-> parseFirestoreValue(doc.fields[k])])


(***************************************************************************)
(* State.                                                                  *)
(***************************************************************************)
VARIABLES
    store,        \* the user's remote document: [exists, fields]
    expired,      \* access tokens the store rejects with 401
    nextTok,      \* the next access token the identity endpoints issue
    clock,        \* Date.now(): advanced at every use
    ss,           \* sessionStorage of each tab (the Token Store)
    currentUser,  \* firebase-auth.js:18, per tab
    ls,           \* localStorage (shared by the tabs): key -> string
    pc,           \* where each tab's data call is suspended
    frame,        \* the local variables of each tab's data call
    req,          \* the request each tab's data call has in flight
    result,       \* how each tab's last data call ended
    apc,          \* where each tab's auth handler is suspended
    initLocals,   \* the local variables of initAuth (firebase-auth.js:26-30)
    inited,       \* whether the page of each tab has run initAuth
    budget,       \* calls and environment events the behaviour may still take
    net,          \* requests the current data call of each tab has issued
    okLog,        \* per category: timestamps of the sessions of the
                  \* updateGameData calls that returned, newest first
    outSince,     \* per tab: signOut() ran and no sign-in completed since
    authStateCallback,  \* firebase-auth.js:19, per tab: a callback is set
    notes,        \* per tab: the arguments authStateCallback was called with
    authErrors,   \* per tab: 'auth-error' events dispatched on window
    codec         \* a value on its way through the value codec

vars ==
    <<store, expired, nextTok, clock, ss, currentUser, ls, pc, frame, req,
      result, apc, initLocals, inited, budget, net, okLog, outSince,
      authStateCallback, notes, authErrors, codec>>

\* The variables a data call's continuation assigns.
callVars == <<pc, frame, req, result, ls, okLog, net, clock>>

(***************************************************************************)
(* The signed-in user, as the identity provider describes them.            *)
(***************************************************************************)
UserId == "u1"
UserEmail == "u1@example.com"
UserName == "User One"

\* firebase-auth.js:144-149: the items handleGoogleSignIn stores.
Credentials(tok) ==
    [firebaseToken |-> tok, refreshToken |-> tok, userId |-> UserId,
     userEmail |-> UserEmail, userDisplayName |-> UserName,
     userPhotoURL |-> ""]

\* firebase-auth.js:262-267: every item removed.
EmptySession ==
    [firebaseToken |-> NoToken, refreshToken |-> NoToken, userId |-> NoItem,
     userEmail |-> NoItem, userDisplayName |-> NoItem, userPhotoURL |-> NoItem]

\* firebase-auth.js:152-157 / 38-43: the currentUser object.
UserObject(uid, email, displayName, photoURL) ==
    [uid |-> uid, email |-> email, displayName |-> displayName,
     photoURL |-> photoURL]

\* firebase-auth.js:288-290
getAuthToken(t) == ss[t].firebaseToken

\* firebase-auth.js:280-282
getCurrentUser(t) == currentUser[t]

\* firebase-auth.js:339-341
isSignedIn(t) == currentUser[t] # Null

\* `x || ''` on a string or null.
OrEmpty(s) == IF s = NoItem THEN "" ELSE s

(***************************************************************************)
(* The remote store (Firestore REST).                                      *)
(***************************************************************************)
NoDoc == [exists |-> FALSE, fields |-> EmptyFields]

NoReq == [kind |-> "none"]

\* The store accepts a bearer token that was issued and has not expired.
ValidToken(tok) == tok # NoToken /\ tok < nextTok /\ tok \notin expired

\* The HTTP status of a document request: 401 for a rejected token, 403 for a
\* document path that is not the token's user (users/null), 404 for a GET of
\* a missing document.
Status(r) ==
    IF ~ValidToken(r.token) THEN 401
    ELSE IF r.uid # UserId THEN 403
    ELSE IF r.kind = "GET" /\ ~store.exists THEN 404
    ELSE 200

\* PATCH: without updateMask the body replaces the document; with a mask only
\* the masked top-level fields are written (set from the body, or deleted
\* when the body lacks them) and every other field is kept.
ApplyPatch(doc, r) ==
    IF r.mask = {}
    THEN [exists |-> TRUE, fields |-> r.fields]
    ELSE [exists |-> TRUE,
          fields |->
            [k \in (DOMAIN doc.fields \ r.mask) \cup (r.mask \cap DOMAIN r.fields)
                |-> IF k \in r.mask THEN r.fields[k] ELSE doc.fields[k]]]

MapValue(f) == [tag |-> "mapValue", v |-> f]
ArrayValue(s) == [tag |-> "arrayValue", v |-> s]

\* firebase-db.js:235-251
getDefaultGameFields(now) ==
    [personalBests |->
        MapValue([sessionsPlayed |-> [tag |-> "doubleValue", v |-> 0],
                  lastPlayed |-> [tag |-> "timestampValue", v |-> now]]),
     sessions |-> ArrayValue(<<>>)]

\* firebase-db.js:104-124: the body createUserDocument sends.
InitialData(user, now) ==
    [k \in GameNames \cup {"profile"} |->
        IF k = "profile"
        THEN MapValue(
               [email |-> [tag |-> "stringValue", v |-> OrEmpty(user.email)],
                displayName |->
                    [tag |-> "stringValue", v |-> OrEmpty(user.displayName)],
                photoURL |->
                    [tag |-> "stringValue", v |-> OrEmpty(user.photoURL)],
                createdAt |-> [tag |-> "timestampValue", v |-> now]])
        ELSE MapValue(getDefaultGameFields(now))]

\* The sessions stored for a category, as wire values.
StoredSessions(doc, g) ==
    IF doc.exists /\ g \in DOMAIN doc.fields
    THEN doc.fields[g].v.sessions.v
    ELSE <<>>

(***************************************************************************)
(* localStorage and the legacy records.                                    *)
(***************************************************************************)
\* firebase-db.js:397-402
LocalStorageKeys ==
    [speedProcessing |-> "focus-games-speed-processing",
     stroop |-> "focus-games-stroop",
     cpt |-> "focus-games-cpt",
     taskSwitching |-> "focus-games-task-switching"]

getItem(storage, key) == IF key \in DOMAIN storage THEN storage[key] ELSE NoItem

removeItem(storage, key) == [k \in DOMAIN storage \ {key} |-> storage[k]]

\* Legacy records a game may have left in localStorage.
LegacyFull == "{\"highScore\":50,\"lastPlayed\":\"2024-01-01\"}"
LegacyNoDate == "{\"highScore\":7}"
LegacyBroken == "{\"highScore\":"

\* JSON.parse on the strings above: [ok, v]; ok = FALSE is a SyntaxError.
JSONparse(text) ==
    CASE text = LegacyFull ->
            [ok |-> TRUE,
             v |-> Obj([highScore |-> Num(50), lastPlayed |-> Str("2024-01-01")])]
      [] text = LegacyNoDate ->
            [ok |-> TRUE, v |-> Obj([highScore |-> Num(7)])]
      [] OTHER -> [ok |-> FALSE, v |-> Null]

\* JavaScript truthiness, for `a || b`.
Truthy(x) ==
    ~ \/ x.t \in {"null", "undefined"}
      \/ x.t = "number" /\ x.v = 0
      \/ x.t = "string" /\ x.v = ""
      \/ x.t = "boolean" /\ x.v = FALSE

\* new Date().toISOString() kept as a string.
IsoNow(now) == Str("iso:" \o ToString(now))

\* Mutant of LegacySession: the session is stamped with the time of the
\* migration and keeps `lastPlayed`.
LegacySessionStampedNow(parsedData, now) ==
    Obj([k \in {"timestamp"} \cup DOMAIN parsedData.v |->
            IF k = "timestamp" THEN IsoNow(now) ELSE parsedData.v[k]])

\* firebase-db.js:369-375: the session built from a parsed legacy record:
\* `timestamp` first, then every field of the record, without `lastPlayed`.
LegacySession(parsedData, now) ==
    LET d == parsedData.v
        stamp == IF "lastPlayed" \in DOMAIN d /\ Truthy(d["lastPlayed"])
                 THEN d["lastPlayed"]
                 ELSE IsoNow(now)
    IN  Obj([k \in ({"timestamp"} \cup DOMAIN d) \ {"lastPlayed"} |->
                IF k \in DOMAIN d THEN d[k] ELSE stamp])

(***************************************************************************)
(* Inputs of the callers.                                                  *)
(***************************************************************************)
\* The session a game submits at time `now`.
SessionAt(now) ==
    Obj([timestamp |-> Num(now), playedAt |-> Date(now), note |-> Null])

\* The personal bests a game may submit.
BestsInputs ==
    {Obj([sessionsPlayed |-> Num(1), best |-> Num(b)]) : b \in {10, 20}}

\* The timestamp of a stored (wire) session, of either origin.
StampOf(w) == parseFirestoreValue(w.v.timestamp)

(***************************************************************************)
(* Steps of a data call.  A call is suspended at one of                    *)
(*   "read_get"      readUserData's fetch            (firebase-db.js:35)   *)
(*   "read_refresh"  refreshAuthToken's fetch        (firebase-auth.js:233)*)
(*   "read_retry"    readUserDataWithToken's fetch   (firebase-db.js:76)   *)
(*   "create_patch"  createUserDocument's fetch      (firebase-db.js:127)  *)
(*   "update_patch"  updateGameData's fetch          (firebase-db.js:210)  *)
(* or is "idle".  frame holds the locals of the running, or the last, call  *)
(* (existed: the document existed when the call started); net counts the   *)
(* requests of the running call.                                           *)
(***************************************************************************)
NoFrame ==
    [op |-> "none", gameName |-> "", sessionData |-> Null,
     personalBests |-> Null, userId |-> NoItem, token |-> NoToken,
     key |-> "", existed |-> FALSE]

ZeroNet == [GET |-> 0, PATCH |-> 0, REFRESH |-> 0]

\* Mutant of MigrateCleanup: the legacy record is removed whatever the
\* outcome of the migration.
CleanupAlways(storage, fr, ok) ==
    IF fr.op = "migrate" THEN removeItem(storage, fr.key) ELSE storage

\* firebase-db.js:379-383: localStorage after a call ends: migrateLocalStorage
\* removes the legacy record once its updateGameData has returned.
MigrateCleanup(storage, fr, ok) ==
    IF fr.op = "migrate" /\ ok THEN removeItem(storage, fr.key) ELSE storage

\* The call of tab t, with frame fr, ends.  An updateGameData call that
\* returns logs its session; migrateLocalStorage turns the outcome into
\* true (after removing the legacy record, firebase-db.js:381-383) or
\* false (the catch, firebase-db.js:385-388).
Return(t, fr, ok) ==
    /\ pc' = [pc EXCEPT ![t] = "idle"]
    /\ frame' = [frame EXCEPT ![t] = fr]
    /\ req' = [req EXCEPT ![t] = NoReq]
    /\ net' = [net EXCEPT ![t] = ZeroNet]
    /\ clock' = clock
    /\ result' = [result EXCEPT ![t] =
                    IF fr.op = "migrate"
                    THEN (IF ok THEN "true" ELSE "false")
                    ELSE (IF ok THEN "ok" ELSE "threw")]
    /\ ls' = MigrateCleanup(ls, fr, ok)
    /\ okLog' = IF ok /\ fr.op \in {"update", "migrate"}
                THEN [okLog EXCEPT ![fr.gameName] =
                        <<fr.sessionData.v.timestamp>> \o @]
                ELSE okLog

\* The call of tab t, with frame fr, issues request r and is suspended at p;
\* n counts the requests it had issued.
Await(t, fr, p, r, n, now) ==
    /\ pc' = [pc EXCEPT ![t] = p]
    /\ frame' = [frame EXCEPT ![t] = fr]
    /\ req' = [req EXCEPT ![t] = r]
    /\ net' = [net EXCEPT ![t] = [n EXCEPT ![r.kind] = @ + 1]]
    /\ clock' = now
    /\ UNCHANGED <<result, ls, okLog>>

\* Mutant of Unshift: the new session is appended (push instead of unshift).
PushBack(sessions, sessionData) == sessions \o <<sessionData>>

\* firebase-db.js:170  sessions.unshift(sessionData)
Unshift(sessions, sessionData) == <<sessionData>> \o sessions

\* Mutant of KeepNewest: the cut is off by one (slice(0, 31)).
KeepOneMore(sessions) ==
    IF Len(sessions) > MaxSessions
    THEN SubSeq(sessions, 1, MaxSessions + 1)
    ELSE sessions

\* firebase-db.js:173-175  keep the first 30
KeepNewest(sessions) ==
    IF Len(sessions) > MaxSessions
    THEN SubSeq(sessions, 1, MaxSessions)
    ELSE sessions

\* firebase-db.js:167  userData[gameName] || { sessions: [], personalBests: {} }
GameDataOf(userData, gameName) ==
    IF gameName \in DOMAIN userData.v /\ Truthy(userData.v[gameName])
    THEN userData.v[gameName]
    ELSE Obj([sessions |-> Arr(<<>>), personalBests |-> Obj(EmptyFields)])

\* firebase-db.js:181-204  the body of the update
FirestoreUpdate(gameName, personalBests, sessions) ==
    LET pb == objectToFirestoreFields(personalBests)
        enc == [i \in 1..Len(sessions) |-> objectToFirestoreFields(sessions[i])]
    IN  IF pb = Thrown \/ \E i \in 1..Len(sessions) : enc[i] = Thrown
        THEN Thrown
        ELSE [k \in {gameName} |->
                MapValue([personalBests |-> MapValue(pb),
                          sessions |->
                            ArrayValue([i \in 1..Len(sessions) |->
                                            MapValue(enc[i])])])]

\* Mutant of UpdateMask: the write carries no updateMask.
NoUpdateMask(gameName) == {}

\* firebase-db.js:208  ?updateMask.fieldPaths=${gameName}
UpdateMask(gameName) == {gameName}

\* firebase-db.js:213  the bearer token of the write: the one read on entry
\* (firebase-db.js:158)
WriteToken(t) == frame[t].token

\* firebase-db.js:167-217: updateGameData after its read returned userData.
SendUpdate(t, userData) ==
    LET fr == frame[t]
        gameData == GameDataOf(userData, fr.gameName)
        sessions == IF "sessions" \in DOMAIN gameData.v
                    THEN KeepNewest(Unshift(gameData.v.sessions.v, fr.sessionData))
                    ELSE <<>>
        body == FirestoreUpdate(fr.gameName, fr.personalBests, sessions)
    IN  IF "sessions" \notin DOMAIN gameData.v \/ body = Thrown
        THEN Return(t, fr, FALSE)
        ELSE Await(t, fr, "update_patch",
                   [kind |-> "PATCH", uid |-> fr.userId, token |-> WriteToken(t),
                    mask |-> UpdateMask(fr.gameName), fields |-> body],
                   net[t], clock)

\* readUserData returns the document doc, parsed (firebase-db.js:57-58, 88-89,
\* 140-141), to its caller.
AfterRead(t, doc) ==
    IF frame[t].op = "read"
    THEN Return(t, frame[t], TRUE)
    ELSE SendUpdate(t, parseFirestoreDocument(doc))

\* firebase-db.js:127-134: createUserDocument sends no updateMask.
CreateMask == {}

\* Mutant of createUserDocument: a missing document is read as an empty one
\* and nothing is created.
createNothing(t) == AfterRead(t, NoDoc)

\* firebase-db.js:96-134: createUserDocument up to its fetch.  user.email of
\* a null currentUser is a TypeError.
createUserDocument(t) ==
    IF getCurrentUser(t) = Null
    THEN Return(t, frame[t], FALSE)
    ELSE Await(t, frame[t], "create_patch",
               [kind |-> "PATCH", uid |-> ss[t].userId, token |-> getAuthToken(t),
                mask |-> CreateMask,
                fields |-> InitialData(getCurrentUser(t), clock)],
               net[t], clock + 1)

\* firebase-auth.js:225-242: refreshAuthToken up to its fetch.
refreshAuthToken(t) ==
    IF ss[t].refreshToken = NoToken
    THEN Return(t, frame[t], FALSE)
    ELSE Await(t, frame[t], "read_refresh",
               [kind |-> "REFRESH", refreshToken |-> ss[t].refreshToken],
               net[t], clock)

\* Mutant of readUserData: the fetch is issued without looking at the
\* credentials.
readUserDataUnchecked(t, fr, now) ==
    Await(t, fr, "read_get",
          [kind |-> "GET", uid |-> ss[t].userId, token |-> getAuthToken(t)],
          ZeroNet, now)

\* firebase-db.js:23-41: readUserData up to its fetch, entered with frame fr.
readUserData(t, fr, now) ==
    IF ss[t].userId = NoItem \/ getAuthToken(t) = NoToken
    THEN Return(t, fr, FALSE)
    ELSE Await(t, fr, "read_get",
               [kind |-> "GET", uid |-> ss[t].userId, token |-> getAuthToken(t)],
               ZeroNet, now)

(***************************************************************************)
(* Budgets: the model stops starting calls and environment events when     *)
(* they are used up.                                                       *)
(***************************************************************************)
SpendCall ==
    /\ budget.calls > 0
    /\ budget' = [budget EXCEPT !.calls = @ - 1]

SpendEvent ==
    /\ budget.events > 0
    /\ budget' = [budget EXCEPT !.events = @ - 1]

authVars ==
    <<ss, currentUser, apc, initLocals, inited, outSince, authStateCallback,
      notes, authErrors>>

(***************************************************************************)
(* Data calls (firebase-db.js).                                            *)
(***************************************************************************)
\* A caller invokes readUserData().
ReadStart(t) ==
    /\ pc[t] = "idle"
    /\ SpendCall
    /\ readUserData(t,
          [NoFrame EXCEPT !.op = "read", !.userId = ss[t].userId,
                          !.token = getAuthToken(t), !.existed = store.exists],
          clock)
    /\ UNCHANGED <<store, expired, nextTok>>
    /\ UNCHANGED authVars
    /\ UNCHANGED codec

\* firebase-db.js:156-166: updateGameData(gameName, sessionData, personalBests)
\* up to the fetch of its readUserData().
UpdateEnter(t, fr, now) ==
    IF fr.userId = NoItem \/ fr.token = NoToken
    THEN Return(t, fr, FALSE)
    ELSE readUserData(t, fr, now)

\* A game invokes updateGameData with the session it has just finished.
UpdateStart(t, gameName, personalBests) ==
    /\ pc[t] = "idle"
    /\ gameName \in budget.games
    /\ personalBests \in budget.bests
    /\ SpendCall
    /\ UpdateEnter(t,
          [op |-> "update", gameName |-> gameName,
           sessionData |-> SessionAt(clock), personalBests |-> personalBests,
           userId |-> ss[t].userId, token |-> getAuthToken(t), key |-> "",
           existed |-> store.exists],
          clock + 1)
    /\ UNCHANGED <<store, expired, nextTok>>
    /\ UNCHANGED authVars
    /\ UNCHANGED codec

\* firebase-db.js:361-364: the legacy record is read first; nothing to migrate
\* when it is missing or empty.
NothingToMigrate(localData) == localData = NoItem \/ localData = ""

\* Mutant of MigrateStart: updateGameData is entered before the legacy record
\* is looked at.
MigrateEager(t, gameName) ==
    /\ pc[t] = "idle"
    /\ gameName \in budget.games \cap DOMAIN LocalStorageKeys
    /\ SpendCall
    /\ UpdateEnter(t,
          [NoFrame EXCEPT !.op = "migrate", !.gameName = gameName,
                          !.key = LocalStorageKeys[gameName],
                          !.existed = store.exists,
                          !.sessionData = SessionAt(clock),
                          !.personalBests = Obj(EmptyFields),
                          !.userId = ss[t].userId,
                          !.token = getAuthToken(t)],
          clock + 1)
    /\ UNCHANGED <<store, expired, nextTok>>
    /\ UNCHANGED authVars
    /\ UNCHANGED codec

\* firebase-db.js:359-378: migrateLocalStorage(gameName, localStorageKey) up to
\* the fetch of updateGameData's read.
MigrateStart(t, gameName) ==
    /\ pc[t] = "idle"
    /\ gameName \in budget.games \cap DOMAIN LocalStorageKeys
    /\ SpendCall
    /\ LET key == LocalStorageKeys[gameName]
           localData == getItem(ls, key)
           parsed == JSONparse(localData)
           fr0 == [NoFrame EXCEPT !.op = "migrate", !.gameName = gameName,
                                  !.key = key, !.existed = store.exists]
       IN  IF NothingToMigrate(localData)
           THEN Return(t, fr0, FALSE)
           ELSE IF ~parsed.ok \/ parsed.v.t \in {"null", "undefined"}
           THEN Return(t, fr0, FALSE)
           ELSE UpdateEnter(t,
                  [fr0 EXCEPT !.sessionData = LegacySession(parsed.v, clock),
                              !.personalBests = parsed.v,
                              !.userId = ss[t].userId,
                              !.token = getAuthToken(t)],
                  clock + 1)
    /\ UNCHANGED <<store, expired, nextTok>>
    /\ UNCHANGED authVars
    /\ UNCHANGED codec

\* firebase-db.js:43-58: the response to readUserData's GET.
ReadResponse(t) ==
    /\ pc[t] = "read_get"
    /\ LET st == Status(req[t])
       IN  CASE st = 404 -> createUserDocument(t)
             [] st = 401 -> refreshAuthToken(t)
             [] st = 200 -> AfterRead(t, store)
             [] OTHER -> Return(t, frame[t], FALSE)
    /\ UNCHANGED <<store, expired, nextTok, budget>>
    /\ UNCHANGED authVars
    /\ UNCHANGED codec

\* firebase-auth.js:244-246: a rejected refresh (or a failed fetch) throws,
\* and nothing else.
RefreshFailed(t) ==
    /\ Return(t, frame[t], FALSE)
    /\ UNCHANGED <<ss, currentUser, outSince>>

\* firebase-db.js:52, 71-82: readUserDataWithToken(newToken) up to its fetch.
readUserDataWithToken(t, token) ==
    Await(t, frame[t], "read_retry",
          [kind |-> "GET", uid |-> ss[t].userId, token |-> token],
          net[t], clock)

\* firebase-auth.js:244-254 and firebase-db.js:51-52: the response to the
\* refresh.  An accepted refresh stores the new tokens and the read is
\* retried with the new access token.
RefreshResponse(t) ==
    /\ pc[t] = "read_refresh"
    /\ \/ /\ RefreshFailed(t)
          /\ UNCHANGED nextTok
       \/ /\ nextTok <= MaxTokens
          /\ nextTok' = nextTok + 1
          /\ ss' = [ss EXCEPT ![t].firebaseToken = nextTok,
                              ![t].refreshToken = req[t].refreshToken]
          /\ readUserDataWithToken(t, nextTok)
          /\ UNCHANGED <<currentUser, outSince>>
    /\ UNCHANGED <<store, expired, budget>>
    /\ UNCHANGED <<apc, initLocals, inited, authStateCallback, notes, authErrors>>
    /\ UNCHANGED codec

\* Mutant of RetryResponse: the retry treats a 401 as readUserData does.
RetryRefreshes(t) ==
    /\ pc[t] = "read_retry"
    /\ LET st == Status(req[t])
       IN  CASE st = 401 -> refreshAuthToken(t)
             [] st = 200 -> AfterRead(t, store)
             [] OTHER -> Return(t, frame[t], FALSE)
    /\ UNCHANGED <<store, expired, nextTok, budget>>
    /\ UNCHANGED authVars
    /\ UNCHANGED codec

\* firebase-db.js:84-89: the response to readUserDataWithToken's GET.
RetryResponse(t) ==
    /\ pc[t] = "read_retry"
    /\ IF Status(req[t]) = 200
       THEN AfterRead(t, store)
       ELSE Return(t, frame[t], FALSE)
    /\ UNCHANGED <<store, expired, nextTok, budget>>
    /\ UNCHANGED authVars
    /\ UNCHANGED codec

\* firebase-db.js:136-141: the response to createUserDocument's PATCH.
CreateResponse(t) ==
    /\ pc[t] = "create_patch"
    /\ IF Status(req[t]) = 200
       THEN /\ store' = ApplyPatch(store, req[t])
            /\ AfterRead(t, ApplyPatch(store, req[t]))
       ELSE /\ store' = store
            /\ Return(t, frame[t], FALSE)
    /\ UNCHANGED <<expired, nextTok, budget>>
    /\ UNCHANGED authVars
    /\ UNCHANGED codec

\* firebase-db.js:219-221: what updateGameData does with a rejected write.
WriteRejected(t) == Return(t, frame[t], FALSE)

\* firebase-db.js:219-223: the response to updateGameData's PATCH.
UpdateResponse(t) ==
    /\ pc[t] = "update_patch"
    /\ IF Status(req[t]) = 200
       THEN /\ store' = ApplyPatch(store, req[t])
            /\ Return(t, frame[t], TRUE)
       ELSE /\ store' = store
            /\ WriteRejected(t)
    /\ UNCHANGED <<expired, nextTok, budget>>
    /\ UNCHANGED authVars
    /\ UNCHANGED codec

\* A fetch of a data call rejects before the request reaches the store
\* (network error): the await throws.
FetchFails(t) ==
    /\ pc[t] \in {"read_get", "read_retry", "create_patch", "update_patch"}
    /\ SpendEvent
    /\ Return(t, frame[t], FALSE)
    /\ UNCHANGED <<store, expired, nextTok>>
    /\ UNCHANGED authVars
    /\ UNCHANGED codec

\* A PATCH is applied by the store but its response never arrives or does not
\* parse (firebase-db.js:140, 223): the await throws after the write.
ResponseLost(t) ==
    /\ pc[t] \in {"create_patch", "update_patch"}
    /\ Status(req[t]) = 200
    /\ SpendEvent
    /\ store' = ApplyPatch(store, req[t])
    /\ Return(t, frame[t], FALSE)
    /\ UNCHANGED <<expired, nextTok>>
    /\ UNCHANGED authVars
    /\ UNCHANGED codec

\* An issued access token reaches the end of its life.
Expire(tok) ==
    /\ tok \in 1..(nextTok - 1)
    /\ tok \notin expired
    /\ SpendEvent
    /\ expired' = expired \cup {tok}
    /\ UNCHANGED <<store, nextTok>>
    /\ UNCHANGED callVars
    /\ UNCHANGED authVars
    /\ UNCHANGED codec

(***************************************************************************)
(* Auth handlers (firebase-auth.js).  A handler is suspended at            *)
(*   "verify"  initAuth's verifyToken             (firebase-auth.js:35)    *)
(*   "signin"  handleGoogleSignIn's exchange      (firebase-auth.js:141)   *)
(* or is "idle".                                                           *)
(***************************************************************************)
dataVars == <<store, expired>>

NoLocals ==
    [token |-> NoToken, userId |-> NoItem, email |-> NoItem,
     displayName |-> NoItem, photoURL |-> NoItem]

\* firebase-auth.js:296-298: onAuthStateChanged(callback).
OnAuthStateChanged(t) ==
    /\ ~authStateCallback[t]
    /\ authStateCallback' = [authStateCallback EXCEPT ![t] = TRUE]
    /\ UNCHANGED <<ss, currentUser, apc, initLocals, inited, outSince, notes,
                   authErrors, nextTok, budget, codec>>
    /\ UNCHANGED dataVars
    /\ UNCHANGED callVars

\* firebase-auth.js:304-308: notifyAuthStateChange(user), as an assignment
\* to notes'.
notifyAuthStateChange(t, user) ==
    notes' = IF authStateCallback[t]
             THEN [notes EXCEPT ![t] = Append(@, user)]
             ELSE notes

\* firebase-auth.js:260-274: signOut() on tab t, as an assignment to ss',
\* currentUser', outSince' and notes'.
signOut(t) ==
    /\ ss' = [ss EXCEPT ![t] = EmptySession]
    /\ currentUser' = [currentUser EXCEPT ![t] = Null]
    /\ outSince' = [outSince EXCEPT ![t] = TRUE]
    /\ notifyAuthStateChange(t, Null)

\* firebase-auth.js:25-35, 51-53: the page of tab t loads and runs initAuth.
InitAuth(t) ==
    /\ ~inited[t]
    /\ apc[t] = "idle"
    /\ inited' = [inited EXCEPT ![t] = TRUE]
    /\ IF getAuthToken(t) # NoToken /\ ss[t].userId # NoItem
       THEN /\ apc' = [apc EXCEPT ![t] = "verify"]
            /\ initLocals' = [initLocals EXCEPT ![t] =
                    [token |-> getAuthToken(t), userId |-> ss[t].userId,
                     email |-> ss[t].userEmail,
                     displayName |-> ss[t].userDisplayName,
                     photoURL |-> ss[t].userPhotoURL]]
            /\ UNCHANGED notes
       ELSE /\ notifyAuthStateChange(t, Null)
            /\ UNCHANGED <<apc, initLocals>>
    /\ UNCHANGED <<ss, currentUser, outSince, authErrors, nextTok, budget>>
    /\ UNCHANGED dataVars
    /\ UNCHANGED callVars
    /\ UNCHANGED <<authStateCallback, codec>>

\* Mutant of LookupAccepts: the lookup accepts every token.
LookupAcceptsAny(tok) == TRUE

\* firebase-auth.js:213-215: response.ok of the accounts:lookup request.
LookupAccepts(tok) == ValidToken(tok)

\* firebase-auth.js:35-50, 213-218: the lookup answers.  It accepts a token
\* that has not expired; a rejected lookup, or a failed fetch, ends in
\* signOut().
VerifyResponse(t) ==
    /\ apc[t] = "verify"
    /\ apc' = [apc EXCEPT ![t] = "idle"]
    /\ initLocals' = [initLocals EXCEPT ![t] = NoLocals]
    /\ \/ /\ LookupAccepts(initLocals[t].token)
          /\ currentUser' = [currentUser EXCEPT ![t] =
                UserObject(initLocals[t].userId, initLocals[t].email,
                           initLocals[t].displayName, initLocals[t].photoURL)]
          /\ notifyAuthStateChange(t, currentUser'[t])
          /\ UNCHANGED <<ss, outSince, budget>>
       \/ /\ ~LookupAccepts(initLocals[t].token)
          /\ signOut(t)
          /\ UNCHANGED budget
       \/ /\ LookupAccepts(initLocals[t].token)
          /\ SpendEvent
          /\ signOut(t)
    /\ UNCHANGED <<inited, authErrors, nextTok>>
    /\ UNCHANGED dataVars
    /\ UNCHANGED callVars
    /\ UNCHANGED <<authStateCallback, codec>>

\* firebase-auth.js:133-141: Google Identity Services hands a credential to
\* handleGoogleSignIn, which starts the exchange.
GoogleSignIn(t) ==
    /\ apc[t] = "idle"
    /\ SpendEvent
    /\ apc' = [apc EXCEPT ![t] = "signin"]
    /\ UNCHANGED <<ss, currentUser, initLocals, inited, outSince, notes,
                   authErrors, nextTok>>
    /\ UNCHANGED dataVars
    /\ UNCHANGED callVars
    /\ UNCHANGED <<authStateCallback, codec>>

\* Mutant of SignInFailed: the user id is stored before the exchange is
\* known to have succeeded.
SignInFailedStoresUser(t) ==
    /\ authErrors' = [authErrors EXCEPT ![t] = @ + 1]
    /\ ss' = [ss EXCEPT ![t].userId = UserId]
    /\ UNCHANGED <<currentUser, outSince, notes>>

\* firebase-auth.js:162-166: a failed exchange dispatches 'auth-error' and
\* nothing else.
SignInFailed(t) ==
    /\ authErrors' = [authErrors EXCEPT ![t] = @ + 1]
    /\ UNCHANGED <<ss, currentUser, outSince, notes>>

\* firebase-auth.js:141-166, 189-194: the exchange answers.  On success the
\* credentials are stored and currentUser set; on failure only an error event
\* is dispatched.
SignInResponse(t) ==
    /\ apc[t] = "signin"
    /\ apc' = [apc EXCEPT ![t] = "idle"]
    /\ \/ /\ nextTok <= MaxTokens
          /\ nextTok' = nextTok + 1
          /\ ss' = [ss EXCEPT ![t] = Credentials(nextTok)]
          /\ currentUser' = [currentUser EXCEPT ![t] =
                UserObject(UserId, UserEmail, OrEmpty(UserName), OrEmpty(""))]
          /\ outSince' = [outSince EXCEPT ![t] = FALSE]
          /\ notifyAuthStateChange(t, currentUser'[t])
          /\ UNCHANGED authErrors
       \/ /\ SignInFailed(t)
          /\ UNCHANGED nextTok
    /\ UNCHANGED <<initLocals, inited, budget>>
    /\ UNCHANGED dataVars
    /\ UNCHANGED callVars
    /\ UNCHANGED <<authStateCallback, codec>>

\* The user signs out of tab t (firebase-auth.js:260-274).
SignOut(t) ==
    /\ SpendEvent
    /\ signOut(t)
    /\ UNCHANGED <<apc, initLocals, inited, authErrors, nextTok>>
    /\ UNCHANGED dataVars
    /\ UNCHANGED callVars
    /\ UNCHANGED <<authStateCallback, codec>>

(***************************************************************************)
(* Initial states and specifications.                                      *)
(***************************************************************************)
\* A user document written by earlier runs of the program: created at time
\* 0, with n sessions of stroop (timestamps n down to 1, newest first).
EarlierDoc(n) ==
    [exists |-> TRUE,
     fields |->
        [k \in GameNames \cup {"profile"} |->
            IF k = "stroop"
            THEN MapValue(
                   [personalBests |->
                        MapValue(objectToFirestoreFields(
                            Obj([sessionsPlayed |-> Num(n), best |-> Num(5)]))),
                    sessions |->
                        ArrayValue([i \in 1..n |->
                            MapValue(objectToFirestoreFields(
                                SessionAt(n + 1 - i)))])])
            ELSE InitialData(UserObject(UserId, UserEmail, UserName, ""), 0)[k]]]

\* No value is in the codec.
NoCodec == [stage |-> "none"]

SignedInUser == UserObject(UserId, UserEmail, UserName, "")

InitData ==
    /\ clock = MaxSessions + 1
    /\ pc = [t \in Tabs |-> "idle"]
    /\ frame = [t \in Tabs |-> NoFrame]
    /\ req = [t \in Tabs |-> NoReq]
    /\ result = [t \in Tabs |-> "none"]
    /\ apc = [t \in Tabs |-> "idle"]
    /\ initLocals = [t \in Tabs |-> NoLocals]
    /\ net = [t \in Tabs |-> ZeroNet]
    /\ okLog = [g \in PlayedGames |-> <<>>]
    /\ outSince = [t \in Tabs |-> FALSE]
    /\ notes = [t \in Tabs |-> <<>>]
    /\ authErrors = [t \in Tabs |-> 0]

\* The legacy record of stroop that localStorage may hold at page load.
LegacyStore(text) == [k \in {LocalStorageKeys["stroop"]} |-> text]

\* One tab whose sessionStorage holds the credentials of an earlier page of
\* the tab and whose page has just loaded.  The stored token may have expired
\* since.  The remote document is missing or full; localStorage holds a
\* legacy record of stroop, well-formed or not, and none of cpt.
Init ==
    /\ InitData
    /\ authStateCallback = [t \in Tabs |-> TRUE]
    /\ codec = NoCodec
    /\ store \in {NoDoc, EarlierDoc(MaxSessions)}
    /\ ss = [t \in Tabs |-> IF t = 1 THEN Credentials(1) ELSE EmptySession]
    /\ nextTok = 2
    /\ expired \in {{}, {1}}
    /\ inited = [t \in Tabs |-> t # 1]
    /\ currentUser = [t \in Tabs |-> Null]
    /\ ls \in {LegacyStore(LegacyFull), LegacyStore(LegacyBroken)}
    /\ budget = [calls |-> MaxCalls, events |-> MaxEvents,
                 games |-> PlayedGames,
                 bests |-> {Obj([sessionsPlayed |-> Num(1), best |-> Num(10)])}]

\* Two tabs of the same user, both signed in (initAuth has verified their
\* stored tokens); the token of tab 1 may have expired since.  The remote
\* document is missing or full.
InitTabs ==
    /\ InitData
    /\ authStateCallback = [t \in Tabs |-> TRUE]
    /\ codec = NoCodec
    /\ store \in {NoDoc, EarlierDoc(MaxSessions)}
    /\ ss = [t \in Tabs |-> Credentials(t)]
    /\ nextTok = 3
    /\ expired \in {{}, {1}}
    /\ inited = [t \in Tabs |-> TRUE]
    /\ currentUser = [t \in Tabs |-> SignedInUser]
    /\ ls = LegacyStore(LegacyFull)
    /\ budget = [calls |-> TabCalls, events |-> 0, games |-> PlayedGames,
                 bests |-> {Obj([sessionsPlayed |-> Num(1), best |-> Num(10)])}]

\* One tab that is signed in, one category, a fresh user: a long run of
\* sequential data calls.
InitSeq ==
    /\ InitData
    /\ authStateCallback = [t \in Tabs |-> TRUE]
    /\ codec = NoCodec
    /\ store = NoDoc
    /\ ss = [t \in Tabs |-> IF t = 1 THEN Credentials(1) ELSE EmptySession]
    /\ nextTok = 2
    /\ expired = {}
    /\ inited = [t \in Tabs |-> TRUE]
    /\ currentUser = [t \in Tabs |-> IF t = 1 THEN SignedInUser ELSE Null]
    /\ ls = [k \in {} |-> ""]
    /\ budget = [calls |-> SeqCalls, events |-> 0, games |-> {"stroop"},
                 bests |-> BestsInputs]

\* The page of one tab has just loaded: sessionStorage holds the credentials
\* of an earlier page of the tab, or nothing; no callback is set yet.
InitPage ==
    /\ InitData
    /\ authStateCallback = [t \in Tabs |-> FALSE]
    /\ codec = NoCodec
    /\ store = EarlierDoc(MaxSessions)
    /\ ss \in {[t \in Tabs |-> IF t = 1 THEN c ELSE EmptySession] :
                 c \in {Credentials(1), EmptySession}}
    /\ nextTok = 2
    /\ expired \in {{}, {1}}
    /\ inited = [t \in Tabs |-> t # 1]
    /\ currentUser = [t \in Tabs |-> Null]
    /\ ls = [k \in {} |-> ""]
    /\ budget = [calls |-> AuthCalls, events |-> AuthEvents, games |-> {},
                 bests |-> {}]

(***************************************************************************)
(* The value codec on its own: a native value x is encoded as the field    *)
(* `val` of an object and the wire value is decoded again.                 *)
(***************************************************************************)
\* The scalar values of the supported types.
Scalars ==
    {Null, Num(0), Num(1), Str(""), Str("a"), Bool(TRUE), Bool(FALSE), Date(1)}

RECURSIVE NativeValues(_)

\* The supported values nested at most d deep: scalars, sequences of one or
\* two values (two only of scalars) and keyed objects.
NativeValues(d) ==
    IF d = 0
    THEN Scalars
    ELSE LET inner == NativeValues(d - 1)
         IN  inner
               \cup {Arr(<<>>), Obj(EmptyFields)}
               \cup {Arr(<<x>>) : x \in inner}
               \cup {Arr(<<x, Num(1)>>) : x \in Scalars}
               \cup {Obj([a |-> x]) : x \in inner}

\* firebase-db.js:261-289: objectToFirestoreFields({ val: x }).val
Encode ==
    /\ codec.stage = "native"
    /\ codec' = [codec EXCEPT
                   !.stage = "wire",
                   !.wire = LET f == objectToFirestoreFields(Obj([val |-> codec.x]))
                            IN  IF f = Thrown THEN Thrown ELSE f.val]
    /\ UNCHANGED <<store, expired, nextTok, budget>>
    /\ UNCHANGED callVars
    /\ UNCHANGED authVars

\* firebase-db.js:318-351: parseFirestoreValue of the wire value; an encoding
\* that threw has nothing to decode.
Decode ==
    /\ codec.stage = "wire"
    /\ codec' = [codec EXCEPT
                   !.stage = "decoded",
                   !.back = IF codec.wire = Thrown
                            THEN Thrown
                            ELSE parseFirestoreValue(codec.wire)]
    /\ UNCHANGED <<store, expired, nextTok, budget>>
    /\ UNCHANGED callVars
    /\ UNCHANGED authVars

\* A caller holds a supported native value; no call is running.
InitCodec ==
    /\ InitData
    /\ authStateCallback = [t \in Tabs |-> TRUE]
    /\ codec \in {[stage |-> "native", x |-> x, wire |-> Thrown, back |-> Thrown] :
                    x \in NativeValues(CodecDepth)}
    /\ store = NoDoc
    /\ ss = [t \in Tabs |-> IF t = 1 THEN Credentials(1) ELSE EmptySession]
    /\ nextTok = 2
    /\ expired = {}
    /\ inited = [t \in Tabs |-> TRUE]
    /\ currentUser = [t \in Tabs |-> IF t = 1 THEN SignedInUser ELSE Null]
    /\ ls = [k \in {} |-> ""]
    /\ budget = [calls |-> 0, events |-> 0, games |-> {}, bests |-> {}]

\* Everything one tab can do, and what can happen to its requests.
Next ==
    \/ ReadStart(1)
    \/ \E g \in PlayedGames, pb \in BestsInputs : UpdateStart(1, g, pb)
    \/ \E g \in PlayedGames : MigrateStart(1, g)
    \/ ReadResponse(1)
    \/ RefreshResponse(1)
    \/ RetryResponse(1)
    \/ CreateResponse(1)
    \/ UpdateResponse(1)
    \/ FetchFails(1)
    \/ ResponseLost(1)
    \/ \E tok \in 1..MaxTokens : Expire(tok)
    \/ InitAuth(1)
    \/ VerifyResponse(1)
    \/ GoogleSignIn(1)
    \/ SignInResponse(1)
    \/ SignOut(1)

\* The data calls of two tabs, interleaved; no request fails in transport.
NextTabs ==
    \/ \E t \in Tabs : ReadStart(t)
    \/ \E t \in Tabs, g \in PlayedGames, pb \in BestsInputs : UpdateStart(t, g, pb)
    \/ \E t \in Tabs, g \in PlayedGames : MigrateStart(t, g)
    \/ \E t \in Tabs : ReadResponse(t)
    \/ \E t \in Tabs : RefreshResponse(t)
    \/ \E t \in Tabs : RetryResponse(t)
    \/ \E t \in Tabs : CreateResponse(t)
    \/ \E t \in Tabs : UpdateResponse(t)

\* The data calls alone, in the signed-in tab: no auth handler runs and no
\* request fails.
NextSeq ==
    \/ ReadStart(1)
    \/ \E pb \in BestsInputs : UpdateStart(1, "stroop", pb)
    \/ ReadResponse(1)
    \/ CreateResponse(1)
    \/ UpdateResponse(1)

\* The auth handlers of one tab, interleaved with a readUserData call and
\* its token refresh.
NextAuth ==
    \/ OnAuthStateChanged(1)
    \/ InitAuth(1)
    \/ VerifyResponse(1)
    \/ GoogleSignIn(1)
    \/ SignInResponse(1)
    \/ SignOut(1)
    \/ ReadStart(1)
    \/ ReadResponse(1)
    \/ RefreshResponse(1)
    \/ RetryResponse(1)
    \/ \E tok \in 1..MaxTokens : Expire(tok)

Spec == Init /\ [][Next]_vars

SpecAuth == InitPage /\ [][NextAuth]_vars

SpecCodec == InitCodec /\ [][Encode \/ Decode]_vars

SpecTabs == InitTabs /\ [][NextTabs]_vars

SpecSeq == InitSeq /\ [][NextSeq]_vars

(***************************************************************************)
(* Properties.                                                             *)
(***************************************************************************)
Min(a, b) == IF a < b THEN a ELSE b

\* The wire form of the session a game submitted at time `now`.
WireSession(now) == MapValue(objectToFirestoreFields(SessionAt(now)))

\* C1: in every reachable state, whatever the interleaving of the two tabs'
\* updateGameData calls, the session list the store holds for each category,
\* and the one every write in flight carries, has at most 30 entries.
C1_SessionsBounded ==
    /\ \A g \in GameNames : Len(StoredSessions(store, g)) <= MaxSessions
    /\ \A t \in Tabs :
          pc[t] = "update_patch" =>
             Len(req[t].fields[frame[t].gameName].v.sessions.v) <= MaxSessions

\* C1 witness: the store held 30 sessions of stroop, an updateGameData call
\* returned, and the store holds 30 sessions with the call's session first.
C1_Witness ==
    /\ okLog["stroop"] # <<>>
    /\ Len(StoredSessions(store, "stroop")) = MaxSessions
    /\ StampOf(StoredSessions(store, "stroop")[1]) = okLog["stroop"][1]
    /\ StampOf(StoredSessions(store, "stroop")[MaxSessions]) = Num(2)

\* C2: after n sequential updateGameData calls on a fresh record, all
\* returned, the stored session list of the category is the min(n, 30) most
\* recently submitted sessions, unchanged, newest first.
C2_NewestFirst ==
    LET log == okLog["stroop"]
        stored == StoredSessions(store, "stroop")
    IN  /\ Len(stored) = Min(Len(log), MaxSessions)
        /\ \A i \in 1..Len(stored) : stored[i] = WireSession(log[i].v)

\* C2 witness: 31 calls have returned; the list has exactly 30 sessions, the
\* 31st call's session first, and the first call's session is not in it.
C2_Witness ==
    LET log == okLog["stroop"]
        stored == StoredSessions(store, "stroop")
    IN  /\ Len(log) = MaxSessions + 1
        /\ pc[1] = "idle"
        /\ Len(stored) = MaxSessions
        /\ stored[1] = WireSession(log[1].v)
        /\ \A i \in 1..Len(stored) : stored[i] # WireSession(log[MaxSessions + 1].v)

\* Tab t's data call takes the step that handles a response (starting a call
\* spends the call budget, a failed fetch the event budget).
Responds(t, p) == pc[t] = p /\ pc'[t] # p /\ budget' = budget

Failed == {"threw", "false"}

C3_Step(t) ==
    /\ net'[t].REFRESH <= 1
    /\ net'[t].GET <= 2
    /\ (Responds(t, "read_get") /\ Status(req[t]) = 401) =>
          IF ss[t].refreshToken # NoToken
          THEN /\ pc'[t] = "read_refresh"
               /\ req'[t].kind = "REFRESH"
               /\ net'[t] = [GET |-> 1, PATCH |-> 0, REFRESH |-> 1]
          ELSE /\ pc'[t] = "idle"
               /\ result'[t] \in Failed
    /\ (pc'[t] = "read_refresh" /\ pc[t] # "read_refresh") =>
          Responds(t, "read_get") /\ Status(req[t]) = 401
    /\ Responds(t, "read_refresh") =>
          IF nextTok' # nextTok
          THEN /\ pc'[t] = "read_retry"
               /\ req'[t].kind = "GET"
               /\ req'[t].token = nextTok
               /\ req'[t].token # req[t].refreshToken
               /\ ss'[t].firebaseToken = nextTok
               /\ net'[t] = [GET |-> 2, PATCH |-> 0, REFRESH |-> 1]
          ELSE /\ pc'[t] = "idle"
               /\ req'[t] = NoReq
               /\ result'[t] \in Failed
    /\ (pc'[t] = "read_retry" /\ pc[t] # "read_retry") =>
          Responds(t, "read_refresh")
    /\ Responds(t, "read_retry") =>
          /\ pc'[t] \in {"idle", "update_patch"}
          /\ Status(req[t]) # 200 => pc'[t] = "idle" /\ result'[t] \in Failed

\* C3: in a readUserData call a 401 to the fetch starts exactly one refresh;
\* an accepted refresh is followed by exactly one retry of the fetch, carrying
\* the new token; a failed refresh ends the call with no further request; and
\* no call issues a second refresh or a second retry, whatever the retry's
\* response is.
C3_OneRefreshOneRetry == [][\A t \in Tabs : C3_Step(t)]_vars

\* C3 witness: the retry of a readUserData() call is in flight after one
\* refresh, carrying the token the refresh returned, and the store will
\* reject it again.
C3_Witness ==
    /\ pc[1] = "read_retry"
    /\ frame[1].op = "read"
    /\ net[1] = [GET |-> 2, PATCH |-> 0, REFRESH |-> 1]
    /\ req[1].token = ss[1].firebaseToken
    /\ req[1].token # frame[1].token
    /\ Status(req[1]) = 401

\* C4: when the store answers updateGameData's PATCH with 401 (and a refresh
\* token is at hand), the call refreshes the token instead of failing.
C4_WriteRefreshes ==
    [][\A t \in Tabs :
         (Responds(t, "update_patch") /\ Status(req[t]) = 401
            /\ ss[t].refreshToken # NoToken)
         => (pc'[t] = "read_refresh" /\ req'[t].kind = "REFRESH")]_vars

\* The top-level fields and sessions of doc are all in doc2, unchanged.
Kept(doc, doc2) ==
    /\ doc2.exists
    /\ "profile" \in DOMAIN doc.fields =>
          /\ "profile" \in DOMAIN doc2.fields
          /\ doc2.fields["profile"] = doc.fields["profile"]
    /\ \A g \in GameNames :
          \A i \in 1..Len(StoredSessions(doc, g)) :
             \E j \in 1..Len(StoredSessions(doc2, g)) :
                StoredSessions(doc2, g)[j] = StoredSessions(doc, g)[i]

\* C5: when createUserDocument's request is applied to a document that exists
\* by then, the profile and every stored session are still in the store
\* afterwards.
C5_CreateKeepsData ==
    [][\A t \in Tabs :
         (Responds(t, "create_patch") /\ store.exists) => Kept(store, store')]_vars

\* C6: every step of an updateGameData call that started on an existing
\* document leaves the profile and every other category's sub-record in the
\* store exactly as they were.
C6_OnlyThatCategory ==
    [][\A t \in Tabs :
         (frame[t].op \in {"update", "migrate"} /\ frame[t].existed
            /\ pc[t] # "idle" /\ pc'[t] # pc[t])
         => /\ store'.exists
            /\ DOMAIN store'.fields \ {frame[t].gameName}
                 = DOMAIN store.fields \ {frame[t].gameName}
            /\ \A k \in DOMAIN store.fields \ {frame[t].gameName} :
                  store'.fields[k] = store.fields[k]]_vars

\* C6 witness: an updateGameData("stroop", ...) call on the earlier document
\* has returned: its session heads the stroop list, and the profile and the
\* cpt sub-record are the earlier document's.
C6_Witness ==
    \E t \in Tabs :
       /\ pc[t] = "idle"
       /\ result[t] = "ok"
       /\ frame[t].op = "update"
       /\ frame[t].gameName = "stroop"
       /\ frame[t].existed
       /\ StoredSessions(store, "stroop")[1] = WireSession(frame[t].sessionData.v.timestamp.v)
       /\ store.fields["profile"] = EarlierDoc(MaxSessions).fields["profile"]
       /\ store.fields["cpt"] = EarlierDoc(MaxSessions).fields["cpt"]

\* A migrateLocalStorage call of tab t ends with this step.
MigrateEnds(t) ==
    /\ frame'[t].op = "migrate"
    /\ pc'[t] = "idle"
    /\ pc[t] # "idle" \/ budget'.calls < budget.calls

\* C7: localStorage changes only when migrateLocalStorage's updateGameData
\* has returned (its write accepted), by the removal of the legacy record,
\* and the call then returns true; every other end of the call returns
\* false, never raises, and leaves localStorage as it was.
C7_DeleteOnlyAfterSuccess ==
    [][/\ ls' # ls =>
             \E t \in Tabs :
                /\ MigrateEnds(t)
                /\ Responds(t, "update_patch")
                /\ Status(req[t]) = 200
                /\ store' = ApplyPatch(store, req[t])
                /\ result'[t] = "true"
       /\ \A t \in Tabs :
             MigrateEnds(t) =>
                /\ result'[t] \in {"true", "false"}
                /\ result'[t] = "true" =>
                      /\ Responds(t, "update_patch")
                      /\ ls' = removeItem(ls, frame[t].key)
                      /\ frame[t].key \notin DOMAIN ls'
                /\ result'[t] = "false" => ls' = ls]_vars

\* C7 witness: a migration of stroop returned true and the legacy record is
\* gone, its session at the head of the stored list.
C7_Witness ==
    /\ pc[1] = "idle"
    /\ frame[1].op = "migrate"
    /\ result[1] = "true"
    /\ LocalStorageKeys["stroop"] \notin DOMAIN ls
    /\ StampOf(StoredSessions(store, "stroop")[1]) = Str("2024-01-01")

\* C8: migrateLocalStorage for a category whose legacy key is absent returns
\* false in the step that starts it, with no request issued and nothing
\* changed, whatever the credentials of the tab.
C8_AbsentKeyNoNetwork ==
    [][\A t \in Tabs :
         (pc[t] = "idle" /\ budget'.calls < budget.calls
            /\ frame'[t].op = "migrate"
            /\ getItem(ls, frame'[t].key) = NoItem)
         => /\ pc'[t] = "idle"
            /\ result'[t] = "false"
            /\ req'[t] = NoReq
            /\ net'[t] = ZeroNet
            /\ store' = store
            /\ ls' = ls
            /\ nextTok' = nextTok]_vars

\* C8 witness: migrateLocalStorage("cpt", ...) returned false on a signed-in
\* tab whose localStorage has no record of cpt.
C8_Witness ==
    /\ pc[1] = "idle"
    /\ frame[1].op = "migrate"
    /\ frame[1].gameName = "cpt"
    /\ result[1] = "false"
    /\ getItem(ls, LocalStorageKeys["cpt"]) = NoItem
    /\ isSignedIn(1)

\* C9: when the refresh started by a rejected read fails, the tab ends signed
\* out: sessionStorage cleared, currentUser null, isSignedIn() false.
C9_FailedRefreshSignsOut ==
    [][\A t \in Tabs :
         (Responds(t, "read_refresh") /\ pc'[t] = "idle")
         => /\ ss'[t] = EmptySession
            /\ currentUser'[t] = Null]_vars

\* C10: from signOut() until the next sign-in, sessionStorage holds neither
\* an access token nor a refresh token.
C10_SignedOutStoreEmpty ==
    \A t \in Tabs :
       outSince[t] =>
          /\ ss[t].firebaseToken = NoToken
          /\ ss[t].refreshToken = NoToken

\* Tab t's auth handler (initAuth's verification or the sign-in exchange)
\* finishes with this step.
HandlerEnds(t, p) == apc[t] = p /\ apc'[t] = "idle"

\* The callback of tab t is called exactly once in this step, with user.
NotifiedOnce(t, user) == notes'[t] = Append(notes[t], user)

\* C11: with a callback set, every step that ends in SignedIn or SignedOut
\* (the sign-in exchange answered, accepted or not; the startup verification
\* answered; initAuth without stored credentials; a failed refresh) calls
\* the callback exactly once, with currentUser or null, and the steps that
\* start the exchange or a refresh do not call it.
C11_NotifiesEveryTransition ==
    [][\A t \in Tabs :
         authStateCallback[t] =>
            /\ Len(notes'[t]) <= Len(notes[t]) + 1
            /\ (HandlerEnds(t, "signin") \/ HandlerEnds(t, "verify"))
                  => NotifiedOnce(t, currentUser'[t])
            /\ (~inited[t] /\ inited'[t] /\ apc'[t] = "idle")
                  => NotifiedOnce(t, Null)
            /\ (Responds(t, "read_refresh") /\ pc'[t] = "idle")
                  => NotifiedOnce(t, Null)
            /\ ((apc[t] = "idle" /\ apc'[t] # "idle")
                  \/ (pc[t] # "read_refresh" /\ pc'[t] = "read_refresh"))
                  => notes'[t] = notes[t]]_vars

\* C12: a tab becomes signed in (currentUser set, or the callback called with
\* a user) only in the step in which the lookup accepts the stored token, or
\* in the step in which a sign-in exchange is accepted; when the lookup
\* rejects the stored token, sessionStorage is cleared and the tab is signed
\* out.
C12_VerifiedBeforeSignedIn ==
    [][\A t \in Tabs :
         /\ (\/ currentUser'[t] # Null /\ currentUser[t] = Null
             \/ /\ notes'[t] # notes[t]
                /\ notes'[t][Len(notes'[t])] # Null)
            => \/ /\ HandlerEnds(t, "verify")
                  /\ ValidToken(initLocals[t].token)
                  /\ currentUser'[t].uid = initLocals[t].userId
               \/ /\ HandlerEnds(t, "signin")
                  /\ nextTok' # nextTok
         /\ (HandlerEnds(t, "verify") /\ ~ValidToken(initLocals[t].token))
            => /\ ss'[t] = EmptySession
               /\ currentUser'[t] = Null
               /\ ~isSignedIn(t)'
               /\ authStateCallback[t] => NotifiedOnce(t, Null)
         /\ (apc[t] = "verify" /\ nextTok = 2 /\ ~outSince[t])
            => /\ ~isSignedIn(t)
               /\ notes[t] = <<>>]_vars

\* C12 witness: the page loaded with a stored token, no sign-in took place,
\* the lookup accepted the token, and the tab is signed in and has told its
\* callback.
C12_Witness ==
    /\ inited[1]
    /\ apc[1] = "idle"
    /\ nextTok = 2
    /\ isSignedIn(1)
    /\ ss[1].firebaseToken = 1
    /\ notes[1] = <<currentUser[1]>>

\* Tab t starts a call of one of the operations ops with this step.
Starts(t, ops) ==
    /\ pc[t] = "idle"
    /\ budget'.calls < budget.calls
    /\ frame'[t].op \in ops

\* C13: readUserData and updateGameData called while sessionStorage lacks
\* the access token or the user id throw in the step that calls them: no
\* request is issued, no refresh is started, and sessionStorage and the
\* remote document are unchanged.
C13_UnauthenticatedNoNetwork ==
    [][\A t \in Tabs :
         (Starts(t, {"read", "update"})
            /\ (ss[t].firebaseToken = NoToken \/ ss[t].userId = NoItem))
         => /\ pc'[t] = "idle"
            /\ result'[t] = "threw"
            /\ req'[t] = NoReq
            /\ net'[t] = ZeroNet
            /\ ss' = ss
            /\ store' = store
            /\ nextTok' = nextTok]_vars

\* C13 witness: updateGameData was called on a tab whose sessionStorage is
\* empty, and threw.
C13_Witness ==
    /\ pc[1] = "idle"
    /\ frame[1].op = "update"
    /\ frame[1].token = NoToken
    /\ ss[1] = EmptySession
    /\ result[1] = "threw"
    /\ net[1] = ZeroNet

\* C14: decoding the encoding of a supported native value gives the value
\* back.
C14_RoundTrip ==
    codec.stage = "decoded" => codec.back = codec.x

\* sessionStorage of tab t holds no access token, refresh token or user id.
StoreEmpty(session) ==
    /\ session.firebaseToken = NoToken
    /\ session.refreshToken = NoToken
    /\ session.userId = NoItem

\* C15: a sign-in whose exchange fails stores nothing, dispatches one
\* 'auth-error' and leaves a signed-out tab signed out with an empty
\* sessionStorage; a sign-in whose exchange succeeds leaves the tab signed
\* in, sessionStorage holding the returned access token, refresh token and
\* user id.
C15_SignInOutcome ==
    [][\A t \in Tabs :
         /\ (HandlerEnds(t, "signin") /\ nextTok' = nextTok)
            => /\ ss'[t] = ss[t]
               /\ currentUser'[t] = currentUser[t]
               /\ authErrors'[t] = authErrors[t] + 1
               /\ (StoreEmpty(ss[t]) /\ ~isSignedIn(t))
                     => (StoreEmpty(ss'[t]) /\ ~isSignedIn(t)')
         /\ (HandlerEnds(t, "signin") /\ nextTok' # nextTok)
            => /\ ss'[t].firebaseToken = nextTok
               /\ ss'[t].refreshToken # NoToken
               /\ ss'[t].userId = UserId
               /\ isSignedIn(t)'
               /\ currentUser'[t].uid = ss'[t].userId
               /\ ss'[t].firebaseToken \notin expired'
               /\ authErrors'[t] = authErrors[t]]_vars

\* C15 witness: the page loaded without credentials, a sign-in was attempted
\* and its exchange failed: one 'auth-error', the tab signed out, nothing in
\* sessionStorage.
C15_Witness ==
    /\ inited[1]
    /\ apc[1] = "idle"
    /\ authErrors[1] = 1
    /\ nextTok = 2
    /\ StoreEmpty(ss[1])
    /\ ~isSignedIn(1)

\* The call of tab t returns to its caller with this step.
Succeeds(t) ==
    /\ pc[t] # "idle"
    /\ pc'[t] = "idle"
    /\ result'[t] \in {"ok", "true"}

\* C16: when a readUserData or updateGameData call returns, the user document
\* exists in the store; no call returns in the step that starts it; a 404 to
\* the read is followed by the create request or by the failure of the
\* call, never by its return.
C16_RecordExistsAfterSuccess ==
    [][\A t \in Tabs :
         /\ Succeeds(t) => store'.exists
         /\ (pc[t] = "idle" /\ result'[t] # result[t]) => result'[t] \in Failed
         /\ (Responds(t, "read_get") /\ Status(req[t]) = 404)
               => \/ pc'[t] = "create_patch" /\ req'[t].kind = "PATCH"
                  \/ pc'[t] = "idle" /\ result'[t] \in Failed]_vars

\* C16 witness: a readUserData call that started when the document was
\* missing has returned, and the document exists.
C16_Witness ==
    \E t \in Tabs :
       /\ pc[t] = "idle"
       /\ frame[t].op = "read"
       /\ ~frame[t].existed
       /\ result[t] = "ok"
       /\ store.exists

\* C17: when migrateLocalStorage returns true for a user whose document did
\* not exist when it was called, the category holds exactly one session:
\* its timestamp is the legacy record's lastPlayed, its other fields are the
\* legacy record's other fields, and the legacy key is gone from
\* localStorage.
C17_MigratedSession ==
    [][\A t \in Tabs :
         (Succeeds(t) /\ frame[t].op = "migrate" /\ ~frame[t].existed
            /\ JSONparse(getItem(ls, frame[t].key)).ok
            /\ "lastPlayed" \in DOMAIN JSONparse(getItem(ls, frame[t].key)).v.v)
         => LET legacy == JSONparse(getItem(ls, frame[t].key)).v.v
                stored == StoredSessions(store', frame[t].gameName)
                session == parseFirestoreValue(stored[1]).v
            IN  /\ Len(stored) = 1
                /\ DOMAIN session
                     = (DOMAIN legacy \ {"lastPlayed"}) \cup {"timestamp"}
                /\ session["timestamp"] = legacy["lastPlayed"]
                /\ \A k \in DOMAIN legacy \ {"lastPlayed"} :
                      session[k] = legacy[k]
                /\ frame[t].key \notin DOMAIN ls']_vars

\* C17 witness: the stroop record {highScore: 50, lastPlayed: "2024-01-01"}
\* was migrated for a user without a document: one session, with that
\* timestamp and highScore 50, and no legacy key.
C17_Witness ==
    /\ pc[1] = "idle"
    /\ frame[1].op = "migrate"
    /\ ~frame[1].existed
    /\ result[1] = "true"
    /\ Len(StoredSessions(store, "stroop")) = 1
    /\ parseFirestoreValue(StoredSessions(store, "stroop")[1])
         = Obj([timestamp |-> Str("2024-01-01"), highScore |-> Num(50)])
    /\ getItem(ls, "focus-games-stroop") = NoItem

\* C18: every request a data call issues to the store while sessionStorage
\* holds an access token carries that token, the one stored when the request
\* is issued.
C18_RequestCarriesStoredToken ==
    [][\A t \in Tabs :
         (req'[t] # req[t] /\ req'[t].kind \in {"GET", "PATCH"}
            /\ ss'[t].firebaseToken # NoToken)
         => req'[t].token = ss'[t].firebaseToken]_vars

\* The sessions of category g in the store that were built from the legacy
\* record LegacyFull.
MigratedSessions(g) ==
    {i \in 1..Len(StoredSessions(store, g)) :
        StampOf(StoredSessions(store, g)[i]) = Str("2024-01-01")}

\* C19: whatever migrateLocalStorage calls are made for a category, retries
\* after a false included, the store holds at most one session built from
\* the legacy record.
C19_MigratedAtMostOnce ==
    \A g \in PlayedGames : Cardinality(MigratedSessions(g)) <= 1

\* C20: in every state, a tab for which isSignedIn() is true holds an access
\* token and a user id in sessionStorage.
C20_SignedInHasCredentials ==
    \A t \in Tabs :
       isSignedIn(t) =>
          /\ ss[t].firebaseToken # NoToken
          /\ ss[t].userId # NoItem

\* The sub-record of tab t's category holds the session and the
\* personalBests of tab t's updateGameData call, the session first.
TookEffect(t) ==
    LET g == frame[t].gameName
    IN  /\ StoredSessions(store, g) # <<>>
        /\ StoredSessions(store, g)[1]
             = MapValue(objectToFirestoreFields(frame[t].sessionData))
        /\ store.fields[g].v.personalBests
             = MapValue(objectToFirestoreFields(frame[t].personalBests))

\* C21: when the two tabs have each returned from one updateGameData call,
\* on different categories, and these are the only calls that returned for
\* the two categories, each category's sub-record holds its own call's
\* session at the head and its own call's personalBests, however the reads
\* and writes of the two calls were interleaved.
C21_BothUpdatesTakeEffect ==
    (/\ \A t \in Tabs :
           /\ pc[t] = "idle"
           /\ frame[t].op = "update"
           /\ result[t] = "ok"
           /\ okLog[frame[t].gameName] = <<frame[t].sessionData.v.timestamp>>
     /\ frame[1].gameName # frame[2].gameName)
    => \A t \in Tabs : TookEffect(t)

=============================================================================
